---- MODULE Spec2Model ----
(***************************************************************************)
(* Model of update_cloudwatch_alarms.py: the CloudWatchAlarmUpdater class  *)
(* (get_alarm_details, update_alarm_sns_topic, process_alarms) and main.   *)
(* Alarm names are the integers 1..N (their order stands for the           *)
(* lexicographic order of the names); a topic ARN is a sequence of its     *)
(* ':'-separated segments; an alarm is a function from the keys present on *)
(* it to their values.                                                     *)
(***************************************************************************)
EXTENDS Integers, Sequences, FiniteSets, TLC

VARIABLES pc, topic_arn, states, action, args_dry_run, dry_run,
          file_alarms, alarm_names, store, store0,
          i, alarms_details, not_found, queue, stats,
          describe_log, refetch_log, put_log, results, out, ext_edits

vars == <<pc, topic_arn, states, action, args_dry_run, dry_run,
          file_alarms, alarm_names, store, store0,
          i, alarms_details, not_found, queue, stats,
          describe_log, refetch_log, put_log, results, out, ext_edits>>

\* ------------------------------------------------------------------ bounds
MaxSmall == 2
MaxActions == 2
MaxExternal == 1

\* --------------------------------------------------------------- constants
batch_size == 100
VALID_STATES == {"OK", "IN_ALARM", "INSUFFICIENT_DATA"}
SnsPrefix == <<"arn", "aws", "sns">>
None == "None"

T == <<"arn", "aws", "sns", "t">>
U == <<"arn", "aws", "sns", "u">>
BadTopic == <<"arn", "aws", "sqs", "t">>
Topics == {T, U}
Actions == {"add", "remove"}

RequiredKeys == {"MetricName", "Namespace", "Period", "EvaluationPeriods",
                 "Threshold", "ComparisonOperator"}
ActionKeys == {"OKActions", "AlarmActions", "InsufficientDataActions"}
CopiedIfPresent == {"Statistic", "ExtendedStatistic", "Unit", "AlarmDescription",
                    "DatapointsToAlarm", "ThresholdMetricId", "ActionsEnabled"}
CopiedIfNonEmpty == {"Dimensions", "Metrics", "Tags"}
OptionalKeys == CopiedIfPresent \cup CopiedIfNonEmpty \cup {"TreatMissingData"}

StateKey(s) ==
  CASE s = "OK" -> "OKActions"
    [] s = "IN_ALARM" -> "AlarmActions"
    [] s = "INSUFFICIENT_DATA" -> "InsufficientDataActions"

\* ----------------------------------------------------------------- helpers
Min(a, b) == IF a < b THEN a ELSE b

SetOf(l) == {l[k] : k \in 1..Len(l)}

\* every name a list may hold, in sorted order
LargestSize == 2 * batch_size + 50
NamesInOrder == [k \in 1..LargestSize |-> k]

\* sorted(S)
SortedSeq(S) == SelectSeq(NamesInOrder, LAMBDA n : n \in S)

\* list(set): the distinct elements in an order the hash seed decides
ListsOf(S) ==
  {l \in [1..Cardinality(S) -> S] : \A x \in S : \E k \in 1..Cardinality(S) : l[k] = x}

Get(d, k, default) == IF k \in DOMAIN d THEN d[k] ELSE default

StartsWithAnything(s, prefix) == TRUE

\* str.startswith
StartsWith(s, prefix) ==
  /\ Len(s) >= Len(prefix)
  /\ SubSeq(s, 1, Len(prefix)) = prefix

\* ------------------------------------------------- update_alarm_sns_topic
ApplyAnyway(requested, act, topic, acts, s) ==
  IF act = "add"
  THEN [acts |-> acts \cup {topic}, updated |-> topic \notin acts,
        changes |-> <<[state |-> s,
                       kind |-> IF topic \in acts THEN "AlreadyPresent" ELSE "Added"]>>]
  ELSE [acts |-> acts \ {topic}, updated |-> topic \in acts,
        changes |-> <<[state |-> s,
                       kind |-> IF topic \in acts THEN "Removed" ELSE "AlreadyAbsent"]>>]

AddAlways(requested, act, topic, acts, s) ==
  IF ~requested
  THEN [acts |-> acts, updated |-> FALSE, changes |-> <<>>]
  ELSE IF act = "add"
  THEN [acts |-> acts \cup {topic}, updated |-> TRUE,
        changes |-> <<[state |-> s, kind |-> "Added"]>>]
  ELSE IF topic \in acts
  THEN [acts |-> acts \ {topic}, updated |-> TRUE,
        changes |-> <<[state |-> s, kind |-> "Removed"]>>]
  ELSE [acts |-> acts, updated |-> FALSE,
        changes |-> <<[state |-> s, kind |-> "AlreadyAbsent"]>>]

RemoveKeeps(requested, act, topic, acts, s) ==
  IF ~requested
  THEN [acts |-> acts, updated |-> FALSE, changes |-> <<>>]
  ELSE IF act = "add" /\ topic \notin acts
  THEN [acts |-> acts \cup {topic}, updated |-> TRUE,
        changes |-> <<[state |-> s, kind |-> "Added"]>>]
  ELSE IF act = "remove" /\ topic \in acts
  THEN [acts |-> acts, updated |-> TRUE,
        changes |-> <<[state |-> s, kind |-> "Removed"]>>]
  ELSE IF act = "add"
  THEN [acts |-> acts, updated |-> FALSE,
        changes |-> <<[state |-> s, kind |-> "AlreadyPresent"]>>]
  ELSE [acts |-> acts, updated |-> FALSE,
        changes |-> <<[state |-> s, kind |-> "AlreadyAbsent"]>>]

\* one "if '<state>' in states:" block
ApplyState(requested, act, topic, acts, s) ==
  IF ~requested
  THEN [acts |-> acts, updated |-> FALSE, changes |-> <<>>]
  ELSE IF act = "add" /\ topic \notin acts
  THEN [acts |-> acts \cup {topic}, updated |-> TRUE,
        changes |-> <<[state |-> s, kind |-> "Added"]>>]
  ELSE IF act = "remove" /\ topic \in acts
  THEN [acts |-> acts \ {topic}, updated |-> TRUE,
        changes |-> <<[state |-> s, kind |-> "Removed"]>>]
  ELSE IF act = "add" /\ topic \in acts
  THEN [acts |-> acts, updated |-> FALSE,
        changes |-> <<[state |-> s, kind |-> "AlreadyPresent"]>>]
  ELSE IF act = "remove" /\ topic \notin acts
  THEN [acts |-> acts, updated |-> FALSE,
        changes |-> <<[state |-> s, kind |-> "AlreadyAbsent"]>>]
  ELSE [acts |-> acts, updated |-> FALSE, changes |-> <<>>]

PutKeysNoUnit(alarm) ==
  {"AlarmName", "TreatMissingData"} \cup RequiredKeys \cup ActionKeys
    \cup ((CopiedIfPresent \ {"Unit"}) \cap DOMAIN alarm)
    \cup {k \in CopiedIfNonEmpty \cap DOMAIN alarm : alarm[k] # <<>>}

\* the keys of put_params
PutKeys(alarm) ==
  {"AlarmName", "TreatMissingData"} \cup RequiredKeys \cup ActionKeys
    \cup (CopiedIfPresent \cap DOMAIN alarm)
    \cup {k \in CopiedIfNonEmpty \cap DOMAIN alarm : alarm[k] # <<>>}

put_params(alarm, alarm_name, okl, all, insl) ==
  [k \in PutKeys(alarm) |->
     CASE k = "AlarmName" -> alarm_name
       [] k = "OKActions" -> okl
       [] k = "AlarmActions" -> all
       [] k = "InsufficientDataActions" -> insl
       [] k = "TreatMissingData" -> Get(alarm, k, "missing")
       [] OTHER -> alarm[k]]

NewResult ==
  [success |-> FALSE, changes |-> <<>>, error |-> None, raised |-> FALSE]

OnExceptionReraise(result, msg) == [result EXCEPT !.raised = TRUE]

\* the except clauses: the exception becomes result['error']
OnException(result, msg) == [result EXCEPT !.error = msg]

\* "if not self.dry_run and updated"
ShouldPut(dry, updated) == ~dry /\ updated

RefetchStale(st, alarm_name) ==
  IF alarm_name \notin DOMAIN st THEN <<>>
  ELSE IF alarm_name \notin DOMAIN alarms_details THEN <<st[alarm_name]>>
  ELSE <<[k \in DOMAIN st[alarm_name] |->
            IF k \in ActionKeys THEN alarms_details[alarm_name][k]
            ELSE st[alarm_name][k]]>>

\* response['MetricAlarms'] of describe_alarms(AlarmNames=[alarm_name])
Refetch(st, alarm_name) ==
  IF alarm_name \in DOMAIN st THEN <<st[alarm_name]>> ELSE <<>>

\* Every way one call can go: what it returns, the alarm it worked on
\* (fetched), whether its in-memory sets changed (updated), the put calls it
\* issued and the definition the remote store accepted (stored).
UpdateOutcomes(st, dry, alarm_name, topic, sts, act) ==
  LET none == [fetched |-> <<>>, updated |-> FALSE, puts |-> <<>>, stored |-> <<>>]
      describeFails ==
        {[none EXCEPT !.fetched = <<>>] @@
           [result |-> OnException(NewResult, "Erro ao atualizar alarme")]}
  IN describeFails \cup
     IF Refetch(st, alarm_name) = <<>>
     THEN {none @@ [result |-> [NewResult EXCEPT !.error = "nao encontrado"]]}
     ELSE
       LET alarm == Refetch(st, alarm_name)[1]
           rok == ApplyState("OK" \in sts, act, topic,
                             SetOf(Get(alarm, "OKActions", <<>>)), "OK")
           ral == ApplyState("IN_ALARM" \in sts, act, topic,
                             SetOf(Get(alarm, "AlarmActions", <<>>)), "IN_ALARM")
           rin == ApplyState("INSUFFICIENT_DATA" \in sts, act, topic,
                             SetOf(Get(alarm, "InsufficientDataActions", <<>>)),
                             "INSUFFICIENT_DATA")
           updated == rok.updated \/ ral.updated \/ rin.updated
           changes == rok.changes \o ral.changes \o rin.changes
           r1 == [NewResult EXCEPT !.changes = changes]
           seen == [none EXCEPT !.fetched = <<alarm>>, !.updated = updated]
       IN
         IF ~updated /\ changes = <<>>
         THEN {seen @@ [result |-> [r1 EXCEPT !.error = "Nenhuma alteracao necessaria"]]}
         ELSE IF ~ShouldPut(dry, updated)
         THEN {seen @@ [result |-> [r1 EXCEPT !.success = TRUE]]}
         ELSE IF ~(RequiredKeys \subseteq DOMAIN alarm)
         THEN {seen @@ [result |-> OnException(r1, "Erro inesperado")]}
         ELSE
           UNION {
             LET p == put_params(alarm, alarm_name, okl, all, insl)
             IN { [seen EXCEPT !.puts = <<p>>, !.stored = <<p>>] @@
                    [result |-> [r1 EXCEPT !.success = TRUE]],
                  [seen EXCEPT !.puts = <<p>>] @@
                    [result |-> OnException(r1, "Erro ao atualizar alarme")] }
             : <<okl, all, insl>> \in
                 ListsOf(rok.acts) \X ListsOf(ral.acts) \X ListsOf(rin.acts) }

\* put_metric_alarm replaces the stored definition wholesale
StoreAfter(st, alarm_name, o) ==
  IF o.stored = <<>> THEN st
  ELSE [n \in DOMAIN st \cup {alarm_name} |->
          IF n = alarm_name THEN o.stored[1] ELSE st[n]]

\* ------------------------------------------------------- the remote store
\* the value the remote store holds for a configuration key
FieldValue(k, emptyLists) ==
  CASE k \in CopiedIfNonEmpty -> IF emptyLists THEN <<>> ELSE <<k>>
    [] k \in {"Period", "EvaluationPeriods", "Threshold", "DatapointsToAlarm"} -> 60
    [] k = "ActionsEnabled" -> FALSE
    [] k = "TreatMissingData" -> "breaching"
    [] OTHER -> k

\* an alarm as describe_alarms returns it: the keys in `keys`, plus the
\* action lists given in `lists` (a function from some of ActionKeys)
Alarm(alarm_name, keys, emptyLists, lists) ==
  [k \in {"AlarmName", "AlarmArn"} \cup keys \cup DOMAIN lists |->
     CASE k = "AlarmName" -> alarm_name
       [] k = "AlarmArn" -> <<"arn", "aws", "cloudwatch", alarm_name>>
       [] k \in DOMAIN lists -> lists[k]
       [] OTHER -> FieldValue(k, emptyLists)]

SeqsUpTo(S, n) == UNION {[1..m -> S] : m \in 0..n}

\* three action lists holding at most MaxActions entries in all
ListTriples ==
  {l \in [ActionKeys -> SeqsUpTo(Topics, MaxActions)] :
     Len(l["OKActions"]) + Len(l["AlarmActions"])
       + Len(l["InsufficientDataActions"]) <= MaxActions}

SomeLists ==
  [k \in {"AlarmActions", "InsufficientDataActions"} |->
     IF k = "AlarmActions" THEN <<T>> ELSE <<U>>]

\* which optional keys an alarm carries: none, any one, or all of them
Presences == {{}} \cup {{k} : k \in OptionalKeys} \cup {OptionalKeys}

MutatorAlarms ==
  {Alarm(1, RequiredKeys, FALSE, l) : l \in ListTriples}
    \cup {Alarm(1, RequiredKeys \cup P, e, SomeLists) :
            P \in Presences, e \in BOOLEAN}
    \cup {Alarm(1, (RequiredKeys \ {"MetricName"}) \cup {"Metrics"}, FALSE, SomeLists)}

StateSets == (SUBSET VALID_STATES) \ {{}}

\* ---------------------------------- update_alarm_sns_topic, called twice
InitMutator ==
  /\ pc = "call1"
  /\ topic_arn = T
  /\ states \in StateSets
  /\ action = "add"
  /\ args_dry_run = FALSE
  /\ dry_run = FALSE
  /\ file_alarms = {1}
  /\ alarm_names = <<1>>
  /\ store \in {[n \in {1} |-> a] : a \in MutatorAlarms}
  /\ store0 = store
  /\ i = 0
  /\ alarms_details = <<>>
  /\ not_found = <<>>
  /\ queue = <<>>
  /\ stats = <<>>
  /\ describe_log = <<>>
  /\ refetch_log = <<>>
  /\ put_log = <<>>
  /\ results = <<>>
  /\ out = <<>>
  /\ ext_edits = 0

\* one call of update_alarm_sns_topic(1, topic_arn, states, act)
Call(act, from, to) ==
  /\ pc = from
  /\ \E o \in UpdateOutcomes(store, dry_run, 1, topic_arn, states, act) :
       /\ store' = StoreAfter(store, 1, o)
       /\ refetch_log' = Append(refetch_log, 1)
       /\ put_log' = put_log \o o.puts
       /\ results' = Append(results,
                       [name |-> 1, action |-> act, o |-> o,
                        before |-> store, after |-> StoreAfter(store, 1, o)])
  /\ action' = act
  /\ pc' = to
  /\ UNCHANGED <<ext_edits, topic_arn, states, args_dry_run, dry_run, file_alarms,
                 alarm_names, store0, i, alarms_details, not_found, queue,
                 stats, describe_log, out>>

FirstCall == \E act \in Actions : Call(act, "call1", "call2")

SecondCall == \E act \in Actions : Call(act, "call2", "end")

NextMutator == FirstCall \/ SecondCall

SpecMutator == InitMutator /\ [][NextMutator]_vars

\* ------------------------------------------------------- get_alarm_details
BatchOffByOne(names, from) ==
  SubSeq(names, from + 1, Min(from + batch_size - 1, Len(names)))

\* alarm_names[i:i + batch_size]
Batch(names, from) == SubSeq(names, from + 1, Min(from + batch_size, Len(names)))

\* the remote describe call: the stored alarms among the requested names
DescribeAlarms(st, names) ==
  SortedSeq({n \in DOMAIN st : \E k \in 1..Len(names) : names[k] = n})

\* what alarms_details keeps of one alarm
Details(alarm) ==
  [AlarmName |-> alarm["AlarmName"],
   AlarmArn |-> Get(alarm, "AlarmArn", <<>>),
   OKActions |-> Get(alarm, "OKActions", <<>>),
   AlarmActions |-> Get(alarm, "AlarmActions", <<>>),
   InsufficientDataActions |-> Get(alarm, "InsufficientDataActions", <<>>)]

NotFoundForgotten(batch, found_names) == <<>>

\* [name for name in batch if name not in found_names]
NotFoundInBatch(batch, found_names) ==
  SelectSeq(batch, LAMBDA n : n \notin found_names)

BatchErrorContinues(from, n) == IF from + batch_size < n THEN "fetch" ELSE "report"

\* except ClientError: sys.exit(1)
BatchErrorPc(from, n) == "exit_fetch"

\* ----------------------------------------------------------- process_alarms
\* sorted(alarms_details.keys())
ProcessingOrder(details) == SortedSeq(DOMAIN details)

IsNoop(kind) == kind \in {"AlreadyPresent", "AlreadyAbsent"}

AllRealChanges(changes) == \A k \in 1..Len(changes) : ~IsNoop(changes[k].kind)

\* any('nenhuma ação' not in c.lower() for c in result['changes'])
has_real_change(changes) == \E k \in 1..Len(changes) : ~IsNoop(changes[k].kind)

\* the counter one result is added to
Counter(result) ==
  IF result.error # None THEN "failed"
  ELSE IF result.success
  THEN IF result.changes # <<>>
       THEN IF has_real_change(result.changes) THEN "success" ELSE "no_changes"
       ELSE "no_changes"
  ELSE "failed"

\* the dry-run line of one state of one alarm
PreviewLine(act, topic, details, s) ==
  LET has_topic == topic \in SetOf(details[StateKey(s)])
  IN [state |-> s,
      kind |-> IF act = "add" /\ ~has_topic THEN "Added"
               ELSE IF act = "remove" /\ has_topic THEN "Removed"
               ELSE IF act = "add" THEN "AlreadyPresent"
               ELSE "AlreadyAbsent"]

CtorIgnoresFlag(flag) == FALSE

\* self.dry_run = dry_run
CtorDryRun(flag) == flag

\* ------------------------------------------------------------- whole run
Sizes == (0..MaxSmall) \cup {batch_size + 1, LargestSize}

\* the names of the list whose alarms the remote store may hold
Tracked(n) == {1, n} \cap (1..n)

MainKeys == RequiredKeys \cup {"Statistic", "TreatMissingData", "Dimensions"}

MainAlarms(n) ==
  {Alarm(n, MainKeys, FALSE, l) : l \in [ActionKeys -> {<<>>, <<T>>}]}

Stores(n) ==
  UNION {{st \in [S -> UNION {MainAlarms(m) : m \in S}] :
            \A m \in S : st[m]["AlarmName"] = m} : S \in SUBSET Tracked(n)}

StateArgs == (SUBSET (VALID_STATES \cup {"BOGUS"})) \ {{}}

Init ==
  /\ pc = "main"
  /\ topic_arn \in {T, BadTopic}
  /\ states \in StateArgs
  /\ action \in Actions
  /\ args_dry_run \in BOOLEAN
  /\ dry_run = FALSE
  /\ \E n \in Sizes : file_alarms = 1..n /\ store \in Stores(n)
  /\ store0 = store
  /\ alarm_names = <<>>
  /\ i = 0
  /\ alarms_details = <<>>
  /\ not_found = <<>>
  /\ queue = <<>>
  /\ stats = <<>>
  /\ describe_log = <<>>
  /\ refetch_log = <<>>
  /\ put_log = <<>>
  /\ results = <<>>
  /\ out = <<>>
  /\ ext_edits = 0

\* main: the ARN prefix check, then the updater is constructed
MainCheckArn ==
  /\ pc = "main"
  /\ IF ~StartsWith(topic_arn, SnsPrefix)
     THEN pc' = "exit_arn" /\ UNCHANGED dry_run
     ELSE pc' = "process" /\ dry_run' = CtorDryRun(args_dry_run)
  /\ UNCHANGED <<ext_edits, topic_arn, states, action, args_dry_run, file_alarms,
                 alarm_names, store, store0, i, alarms_details, not_found,
                 queue, stats, describe_log, refetch_log, put_log, results, out>>

\* process_alarms: the states are validated and the list is loaded
ValidateAndLoad ==
  /\ pc = "process"
  /\ IF {s \in states : s \notin VALID_STATES} # {}
     THEN pc' = "exit_states" /\ UNCHANGED alarm_names
     ELSE /\ alarm_names' = SortedSeq(file_alarms)
          /\ pc' = IF file_alarms = {} THEN "exit_empty" ELSE "fetch"
  /\ UNCHANGED <<ext_edits, topic_arn, states, action, args_dry_run, dry_run, file_alarms,
                 store, store0, i, alarms_details, not_found, queue, stats,
                 describe_log, refetch_log, put_log, results, out>>

\* one iteration of the batch loop of get_alarm_details
DescribeBatch ==
  /\ pc = "fetch"
  /\ LET batch == Batch(alarm_names, i)
         response == DescribeAlarms(store, batch)
         found_names == SetOf(response)
     IN \/ /\ describe_log' = Append(describe_log,
                                  [names |-> batch, ok |-> FALSE, returned |-> {}])
           /\ pc' = BatchErrorPc(i, Len(alarm_names))
           /\ UNCHANGED <<alarms_details, not_found>>
        \/ /\ describe_log' = Append(describe_log,
                                  [names |-> batch, ok |-> TRUE, returned |-> found_names])
           /\ alarms_details' =
                [n \in DOMAIN alarms_details \cup found_names |->
                   IF n \in found_names THEN Details(store[n])
                   ELSE alarms_details[n]]
           /\ not_found' = not_found \o NotFoundInBatch(batch, found_names)
           /\ pc' = IF i + batch_size < Len(alarm_names) THEN "fetch" ELSE "report"
  /\ i' = i + batch_size
  /\ UNCHANGED <<ext_edits, topic_arn, states, action, args_dry_run, dry_run, file_alarms,
                 alarm_names, store, store0, queue, stats, refetch_log,
                 put_log, results, out>>

\* process_alarms after the fetch: the not-found names are listed, then the
\* run stops, previews (dry-run) or starts the live loop
ReportNotFound ==
  /\ pc = "report"
  /\ out' = IF not_found # <<>>
            THEN Append(out, [kind |-> "not_found",
                              names |-> SortedSeq(SetOf(not_found))])
            ELSE out
  /\ IF DOMAIN alarms_details = {}
     THEN pc' = "exit_none" /\ UNCHANGED <<queue, stats>>
     ELSE IF dry_run
     THEN pc' = "dry" /\ UNCHANGED <<queue, stats>>
     ELSE /\ pc' = "live"
          /\ queue' = ProcessingOrder(alarms_details)
          /\ stats' = [total |-> Len(alarm_names),
                       found |-> Cardinality(DOMAIN alarms_details),
                       not_found |-> Len(not_found),
                       processed |-> 0, success |-> 0, failed |-> 0,
                       no_changes |-> 0]
  /\ UNCHANGED <<ext_edits, topic_arn, states, action, args_dry_run, dry_run, file_alarms,
                 alarm_names, store, store0, i, alarms_details, not_found,
                 describe_log, refetch_log, put_log, results>>

\* the dry-run branch: one preview per found alarm, no remote call
DryRunPreview ==
  /\ pc = "dry"
  /\ LET order == ProcessingOrder(alarms_details)
     IN out' = out \o
          [k \in 1..Len(order) |->
             [kind |-> "preview", name |-> order[k],
              lines |-> {PreviewLine(action, topic_arn, alarms_details[order[k]], s) :
                           s \in states}]]
  /\ stats' = [total |-> Len(alarm_names),
               found |-> Cardinality(DOMAIN alarms_details),
               not_found |-> Len(not_found),
               processed |-> 0, success |-> 0, failed |-> 0]
  /\ pc' = "done"
  /\ UNCHANGED <<ext_edits, topic_arn, states, action, args_dry_run, dry_run, file_alarms,
                 alarm_names, store, store0, i, alarms_details, not_found,
                 queue, describe_log, refetch_log, put_log, results>>

\* one iteration of the live loop: update_alarm_sns_topic and the counters
ProcessAlarm ==
  /\ pc = "live"
  /\ queue # <<>>
  /\ LET alarm_name == Head(queue)
     IN \E o \in UpdateOutcomes(store, dry_run, alarm_name, topic_arn, states, action) :
          /\ store' = StoreAfter(store, alarm_name, o)
          /\ refetch_log' = Append(refetch_log, alarm_name)
          /\ put_log' = put_log \o o.puts
          /\ results' = Append(results,
                          [name |-> alarm_name, action |-> action, o |-> o,
                           before |-> store,
                           after |-> StoreAfter(store, alarm_name, o)])
          /\ out' = Append(out, [kind |-> "alarm", name |-> alarm_name])
          /\ IF o.result.raised
             THEN pc' = "crash" /\ UNCHANGED <<queue, stats>>
             ELSE /\ pc' = "live"
                  /\ queue' = Tail(queue)
                  /\ stats' = [stats EXCEPT
                                 ![Counter(o.result)] = @ + 1,
                                 !.processed = @ + 1]
  /\ UNCHANGED <<ext_edits, topic_arn, states, action, args_dry_run, dry_run, file_alarms,
                 alarm_names, store0, i, alarms_details, not_found, describe_log>>

\* the summary printed after the loop
Summary ==
  /\ pc = "live"
  /\ queue = <<>>
  /\ out' = Append(out, [kind |-> "summary", stats |-> stats])
  /\ pc' = "done"
  /\ UNCHANGED <<ext_edits, topic_arn, states, action, args_dry_run, dry_run, file_alarms,
                 alarm_names, store, store0, i, alarms_details, not_found,
                 queue, stats, describe_log, refetch_log, put_log, results>>

\* the actions of one state of an alarm with the topic put in or taken out
Toggled(alarm, key, topic) ==
  [alarm EXCEPT ![key] =
     IF topic \in SetOf(@) THEN SelectSeq(@, LAMBDA a : a # topic)
     ELSE Append(@, topic)]

\* the found alarms whose re-fetch is still to come
Pending == IF pc = "report" THEN DOMAIN alarms_details ELSE SetOf(queue)

\* Another client of the remote store acts after the batch fetch and before
\* a re-fetch: it deletes or edits an alarm still to be re-fetched, or
\* creates an alarm the store does not hold.
ExternalEdit ==
  /\ pc = "report" \/ (pc = "live" /\ queue # <<>>)
  /\ ext_edits < MaxExternal
  /\ ext_edits' = ext_edits + 1
  /\ \/ \E n \in DOMAIN store \cap Pending :
          store' = [m \in DOMAIN store \ {n} |-> store[m]]
     \/ \E n \in Tracked(Len(alarm_names)) \ DOMAIN store :
          store' = [m \in DOMAIN store \cup {n} |->
                      IF m = n
                      THEN Alarm(n, MainKeys, FALSE, [k \in ActionKeys |-> <<>>])
                      ELSE store[m]]
     \/ \E n \in DOMAIN store \cap Pending, key \in ActionKeys :
          store' = [store EXCEPT ![n] = Toggled(@, key, topic_arn)]
  /\ UNCHANGED <<pc, topic_arn, states, action, args_dry_run, dry_run,
                 file_alarms, alarm_names, store0, i, alarms_details,
                 not_found, queue, stats, describe_log, refetch_log, put_log,
                 results, out>>

Next ==
  \/ MainCheckArn
  \/ ValidateAndLoad
  \/ DescribeBatch
  \/ ReportNotFound
  \/ DryRunPreview
  \/ ProcessAlarm
  \/ Summary

Spec == Init /\ [][Next]_vars

\* the runs that reach the alarm API, with another client editing the store
InitEdits ==
  /\ Init
  /\ StartsWith(topic_arn, SnsPrefix)
  /\ states \subseteq VALID_STATES
  /\ file_alarms # {}
  /\ Cardinality(file_alarms) <= batch_size + 1

NextEdits ==
  \/ ExternalEdit
  \/ MainCheckArn
  \/ ValidateAndLoad
  \/ DescribeBatch
  \/ ReportNotFound
  \/ DryRunPreview
  \/ ProcessAlarm
  \/ Summary

SpecEdits == InitEdits /\ [][NextEdits]_vars

\* ------------------------------------------------------------ properties
Persisted(r) == r.o.stored # <<>>
Failed(r) == r.o.result.error # None
PassThroughKeys == RequiredKeys \cup OptionalKeys
LiveRun == pc \in {"live", "done", "crash"} /\ ~dry_run
ResultIndexes == 1..Len(results)

\* C1: in dry-run mode no put call is issued, whatever the action, the
\* requested states and the alarms' action lists, and the remote store is
\* the one the run started with.
C1_DryRunNeverPersists ==
  args_dry_run => (put_log = <<>> /\ store = store0)

C1_Witness ==
  /\ args_dry_run
  /\ pc = "done"
  /\ \E k \in 1..Len(out) :
       /\ out[k].kind = "preview"
       /\ \E l \in out[k].lines : l.kind \in {"Added", "Removed"}

C3_ErrorsNeverAbort ==
  LiveRun =>
    /\ pc # "crash"
    /\ refetch_log \o queue = SortedSeq(DOMAIN alarms_details)
    /\ stats.failed = Cardinality({k \in ResultIndexes : Failed(results[k])})
    /\ \A k \in ResultIndexes :
         Failed(results[k]) => results[k].after = results[k].before
    /\ pc = "done" =>
         /\ queue = <<>>
         /\ out[Len(out)].kind = "summary"
         /\ out[Len(out)].stats.processed = Cardinality(DOMAIN alarms_details)

C3_Witness ==
  /\ pc = "done"
  /\ ~dry_run
  /\ Len(results) = 2
  /\ Failed(results[1])
  /\ Persisted(results[2])

\* C4: when a batch describe call fails the run stops there: it is the last
\* describe call, no alarm is re-fetched or persisted (the alarms of earlier
\* batches included) and neither a preview nor a summary is produced.
C4_BatchErrorAborts ==
  \A k \in 1..Len(describe_log) :
    ~describe_log[k].ok =>
      /\ k = Len(describe_log)
      /\ pc = "exit_fetch"
      /\ refetch_log = <<>>
      /\ put_log = <<>>
      /\ store = store0
      /\ stats = <<>>
      /\ \A j \in 1..Len(out) : out[j].kind \notin {"summary", "preview", "alarm"}

C4_Witness ==
  /\ pc = "exit_fetch"
  /\ Len(describe_log) = 2
  /\ DOMAIN alarms_details # {}
  /\ Len(alarm_names) > 2 * batch_size

\* C5: a requested name absent from the response of its batch is in the
\* not-found list, is never re-fetched and never persisted, and the
\* not-found names are listed before the first alarm is processed.
C5_NotFoundExcluded ==
  LET listed == SetOf(not_found)
      touched == SetOf(refetch_log)
                   \cup {put_log[j]["AlarmName"] : j \in 1..Len(put_log)}
  IN /\ \A k \in 1..Len(describe_log) :
          describe_log[k].ok =>
            LET absent == SetOf(describe_log[k].names) \ describe_log[k].returned
            IN absent \subseteq listed /\ absent \cap touched = {}
     /\ (not_found # <<>>
           /\ \E j \in 1..Len(out) : out[j].kind \in {"alarm", "preview"}) =>
          /\ out[1].kind = "not_found"
          /\ SetOf(out[1].names) = listed

C5_Witness ==
  /\ pc = "done"
  /\ ~dry_run
  /\ not_found # <<>>
  /\ put_log # <<>>

\* C6 as stated: the persisted action list of a state that was not
\* requested is the fetched list, element for element.
C6_OtherListsIdentical ==
  \A k \in ResultIndexes :
    Persisted(results[k]) =>
      \A s \in VALID_STATES \ states :
        results[k].after[results[k].name][StateKey(s)]
          = Get(results[k].o.fetched[1], StateKey(s), <<>>)

\* C6 amended: the persisted action list of a state that was not requested
\* holds the same set of actions as the fetched list (their order may
\* differ and duplicates are dropped).
C6_OtherListsSameSet ==
  \A k \in ResultIndexes :
    Persisted(results[k]) =>
      \A s \in VALID_STATES \ states :
        SetOf(results[k].after[results[k].name][StateKey(s)])
          = SetOf(Get(results[k].o.fetched[1], StateKey(s), <<>>))

C6_Witness ==
  \E k \in ResultIndexes :
    /\ Persisted(results[k])
    /\ \E s \in VALID_STATES \ states :
         Len(Get(results[k].o.fetched[1], StateKey(s), <<>>)) = 2

BothCalls(a1, a2) ==
  /\ Len(results) = 2
  /\ results[1].action = a1
  /\ results[2].action = a2

\* C7: after an Add that succeeded, a second Add of the same topic to the
\* same states issues no put and leaves the stored alarm as it was, and
\* (its re-fetch being answered) reports the already-present no-op for
\* every requested state.
C7_AddTwiceIdempotent ==
  (BothCalls("add", "add") /\ results[1].o.result.success) =>
    /\ results[2].o.puts = <<>>
    /\ results[2].after = results[1].after
    /\ results[2].o.fetched # <<>> =>
         /\ results[2].o.result.success
         /\ {results[2].o.result.changes[k].state :
               k \in 1..Len(results[2].o.result.changes)} = states
         /\ \A k \in 1..Len(results[2].o.result.changes) :
              results[2].o.result.changes[k].kind = "AlreadyPresent"

C7_Witness ==
  /\ BothCalls("add", "add")
  /\ Persisted(results[1])
  /\ Cardinality(states) = 1
  /\ results[2].o.result.success

\* C8 as stated: Add then Remove gives back the original action list of
\* every requested state, element for element.
C8_RoundTripExact ==
  (BothCalls("add", "remove") /\ results[1].o.result.success
     /\ results[2].o.result.success) =>
    \A s \in states :
      Get(results[2].after[1], StateKey(s), <<>>)
        = Get(results[1].before[1], StateKey(s), <<>>)

\* C8 amended: after Add then Remove the action list of every requested
\* state holds the original actions other than the topic, as a set: the
\* original set is restored when the topic was not in it (order and
\* multiplicity are not kept), and a topic that was already there is removed.
C8_RoundTripSet ==
  (BothCalls("add", "remove") /\ results[1].o.result.success
     /\ results[2].o.result.success) =>
    \A s \in states :
      SetOf(Get(results[2].after[1], StateKey(s), <<>>))
        = SetOf(Get(results[1].before[1], StateKey(s), <<>>)) \ {topic_arn}

C8_Witness ==
  /\ BothCalls("add", "remove")
  /\ Persisted(results[1])
  /\ Persisted(results[2])
  /\ \E s \in states :
       /\ Get(results[1].before[1], StateKey(s), <<>>) # <<>>
       /\ topic_arn \notin SetOf(Get(results[1].before[1], StateKey(s), <<>>))

RECURSIVE Concat(_)
Concat(ss) == IF ss = <<>> THEN <<>> ELSE Head(ss) \o Concat(Tail(ss))

BatchNames == [k \in 1..Len(describe_log) |-> describe_log[k].names]

\* C9: the batches requested so far are consecutive slices of the list of
\* at most 100 names each, and a fetch that ran to its end has issued
\* ceil(N/100) describe calls whose batches concatenate to the list.
C9_Batching ==
  describe_log # <<>> =>
    /\ \A k \in 1..Len(describe_log) : Len(describe_log[k].names) \in 1..100
    /\ \A k \in 1..(Len(describe_log) - 1) : Len(describe_log[k].names) = 100
    /\ Concat(BatchNames) =
         SubSeq(alarm_names, 1, Len(Concat(BatchNames)))
    /\ pc \notin {"fetch", "exit_fetch"} =>
         /\ Len(describe_log) = (Len(alarm_names) + 99) \div 100
         /\ Concat(BatchNames) = alarm_names

C9_Witness ==
  /\ pc = "report"
  /\ Len(alarm_names) = 250
  /\ [k \in 1..Len(describe_log) |-> Len(describe_log[k].names)] = <<100, 100, 50>>

\* whether the re-fetched alarm lacks (add) or holds (remove) the topic in
\* some requested state
NeedsChange(r) ==
  \E s \in states :
    (r.action = "add") #
      (topic_arn \in SetOf(Get(r.o.fetched[1], StateKey(s), <<>>)))

\* C10: in a live run every processed alarm is in exactly one counter:
\* failed when an error occurred, succeeded when no error occurred and some
\* requested state was Added or Removed, no-change when no error occurred
\* and every requested state was a no-op; at the end the three add up to
\* processed, which is the number of found alarms.
C10_CountersPartition ==
  LiveRun =>
    /\ stats.failed = Cardinality({k \in ResultIndexes : Failed(results[k])})
    /\ stats.success =
         Cardinality({k \in ResultIndexes :
                        ~Failed(results[k]) /\ NeedsChange(results[k])})
    /\ stats.no_changes =
         Cardinality({k \in ResultIndexes :
                        ~Failed(results[k]) /\ ~NeedsChange(results[k])})
    /\ stats.processed = Len(results)
    /\ stats.success + stats.no_changes + stats.failed = stats.processed
    /\ pc = "done" =>
         /\ stats.processed = stats.found
         /\ stats.found = Cardinality(DOMAIN alarms_details)

C10_Witness ==
  /\ pc = "done"
  /\ ~dry_run
  /\ action = "add"
  /\ states = {"OK"}
  /\ stats.found = 2
  /\ stats.success = 1
  /\ stats.no_changes = 1
  /\ stats.failed = 0

\* the three fatal configuration conditions, read off the inputs
FatalConfig ==
  \/ SubSeq(topic_arn, 1, 3) # <<"arn", "aws", "sns">>
  \/ states \ {"OK", "IN_ALARM", "INSUFFICIENT_DATA"} # {}
  \/ file_alarms = {}

\* C11: with a topic that does not start with arn:aws:sns:, a state token
\* outside OK, IN_ALARM, INSUFFICIENT_DATA, or an empty alarm list, the run
\* stops before the alarm API is contacted: no describe call (batch or
\* single-alarm) and no put call is ever made.
C11_FatalConfigNoApiCall ==
  FatalConfig =>
    /\ describe_log = <<>>
    /\ refetch_log = <<>>
    /\ put_log = <<>>
    /\ pc \in {"main", "process", "exit_arn", "exit_states", "exit_empty"}

C11_Witness ==
  /\ pc = "exit_states"
  /\ file_alarms # {}
  /\ DOMAIN store # {}

\* what the topic's presence in a list makes of a requested state
ExpectedKind(act, has_topic) ==
  IF act = "add"
  THEN IF has_topic THEN "AlreadyPresent" ELSE "Added"
  ELSE IF has_topic THEN "Removed" ELSE "AlreadyAbsent"

ExpectedSet(act, requested, acts) ==
  IF ~requested THEN acts
  ELSE IF act = "add" THEN acts \cup {topic_arn}
  ELSE acts \ {topic_arn}

\* C12: in a live run each alarm is handled as its own re-fetch returns it,
\* not as the batch fetch saw it: the alarm worked on is the stored alarm at
\* the time of the call, every requested state's Add/Remove/no-op decision
\* and every persisted list follow from its lists (an external edit made
\* since the batch fetch is kept), and an alarm that no longer exists is a
\* failure with no put call.
C12_ActsOnRefetched ==
  \A k \in ResultIndexes :
    LET r == results[k]
        changes == r.o.result.changes
    IN IF r.name \notin DOMAIN r.before
       THEN Failed(r) /\ r.o.puts = <<>> /\ r.after = r.before
       ELSE r.o.fetched # <<>> =>
         LET current == r.before[r.name]
         IN /\ r.o.fetched[1] = current
            /\ {changes[j].state : j \in 1..Len(changes)} = states
            /\ \A j \in 1..Len(changes) :
                 changes[j].kind =
                   ExpectedKind(r.action,
                     topic_arn \in SetOf(Get(current, StateKey(changes[j].state), <<>>)))
            /\ Persisted(r) =>
                 \A s \in VALID_STATES :
                   SetOf(r.after[r.name][StateKey(s)]) =
                     ExpectedSet(r.action, s \in states,
                                 SetOf(Get(current, StateKey(s), <<>>)))

C12_Witness ==
  \E k \in ResultIndexes :
    /\ results[k].name \in DOMAIN alarms_details
    /\ Persisted(results[k])
    /\ \E s \in states :
         (topic_arn \in SetOf(alarms_details[results[k].name][StateKey(s)]))
           # (topic_arn \in SetOf(results[k].before[results[k].name][StateKey(s)]))

====
